---- MODULE Spec2Model ----
(***************************************************************************)
(* Model of pipewire-screencast.py: the DesktopPortalManager handshake     *)
(* (CreateSession, SelectSources, Start, OpenPipeWireRemote) and the       *)
(* PipewireRecorder lifecycle (record, bus messages, SIGINT, drain timer,  *)
(* terminate).                                                             *)
(*                                                                         *)
(* Threads.  Every callback (D-Bus Response handlers, GStreamer bus        *)
(* messages, the SIGINT handler) runs on the GLib main loop, one at a      *)
(* time, and only while the loop is running.  threading.Timer runs         *)
(* self.terminate on its own thread, so terminate is modelled statement by *)
(* statement (release, quit, cancel) for both threads and the two may      *)
(* interleave.  The Timer thread is not a daemon thread: it still runs     *)
(* after main() has returned.                                              *)
(*                                                                         *)
(* A request token f"u{n}" is represented by the integer n, a request      *)
(* object path by the token it ends in.                                    *)
(***************************************************************************)
EXTENDS Integers, Sequences, FiniteSets, TLC

\* Bounds of the model.
MaxStreams == 2     \* longest "streams" array a Start reply carries
MaxNodes == 2       \* number of distinct PipeWire node ids
MaxResponse == 2    \* largest response code (0 ok, 1 cancelled, 2 other)

NodeIds == 1..MaxNodes
Responses == 0..MaxResponse
SessionHandles == {"/s/1", "/s/2"}
Threads == {"main", "timer"}

\* All stream lists of length 1..MaxStreams (the node ids of the descriptors).
StreamLists == UNION {[1..n -> NodeIds] : n \in 1..MaxStreams}

VARIABLES
  request_token_counter, \* DesktopPortalManager._request_token_counter
  session,               \* DesktopPortalManager._session ("None" or a handle)
  callback,              \* DesktopPortalManager._callback
  listeners,             \* signal receivers added to the bus (never removed)
  default_options,       \* handle_token stored in the shared default options={} (0: none)
  calls,                 \* broker method calls issued, in order
  issued,                \* request tokens minted by _new_request_path, in order
  replies,               \* Responses delivered, in order
  delivered,             \* arguments the continuation was invoked with, in order
  pipelines,             \* every pipeline constructed by Gst.parse_launch, in order
  pipeline,              \* PipewireRecorder._pipeline (index into pipelines, 0: None)
  eosEvents,             \* EOS events injected: [pipe, target, trigger]
  errorsPrinted,         \* pipelines whose non-resource error was printed
  delayed_timer,         \* PipewireRecorder._delayed_terminate ("None" or "Timer")
  timersStarted,         \* number of Timer objects created and started
  loopRunning,           \* GLib.MainLoop is running
  quitCount,             \* number of loop.quit() calls
  termInvoked,           \* threads that have invoked terminate
  pc                     \* position of the main thread and of the timer thread

negVars == <<request_token_counter, session, callback, listeners, default_options,
             calls, issued, replies, delivered>>
vars == <<request_token_counter, session, callback, listeners, default_options,
          calls, issued, replies, delivered,
          pipelines, pipeline, eosEvents, errorsPrinted, delayed_timer,
          timersStarted, loopRunning, quitCount, termInvoked, pc>>

\* State after PipewireRecorder.__init__ (which constructs DesktopPortalManager).
Init ==
  /\ request_token_counter = 0
  /\ session = "None"
  /\ callback = "None"
  /\ listeners = {}
  /\ default_options = 0
  /\ calls = <<>>
  /\ issued = <<>>
  /\ replies = <<>>
  /\ delivered = <<>>
  /\ pipelines = <<>>
  /\ pipeline = 0
  /\ eosEvents = {}
  /\ errorsPrinted = {}
  /\ delayed_timer = "None"
  /\ timersStarted = 0
  /\ loopRunning = FALSE
  /\ quitCount = 0
  /\ termInvoked = {}
  /\ pc = [main |-> "start", timer |-> "unborn"]


(***************************************************************************)
(* DesktopPortalManager                                                    *)
(***************************************************************************)

\* Variant of _new_request_path that forgets the increment.
NewRequestTokenStale(counter) == counter

\* _new_request_path: increments the counter and returns the new token.
NewRequestToken(counter) == counter + 1

\* The record of one broker method call.  path is the token of the request
\* path the step's listener was registered on, handle_token the value the
\* options mapping carried, listening whether a receiver for that path was
\* registered when the call was issued (0 / FALSE for OpenPipeWireRemote,
\* which takes an empty dictionary and has no request path).
Call(method, path, token, sess, listening) ==
  [method |-> method, path |-> path, handle_token |-> token,
   session |-> sess, listening |-> listening]

\* Variant of the options update that leaves handle_token as it was.
SetHandleTokenForgotten(old, tok) == old

\* options["handle_token"] = request_token: the handle_token of the mapping
\* afterwards, whatever it held before (old; 0: no such key).
SetHandleToken(old, tok) == tok

\* Variant of _dbus_screencast that calls the method before it adds the
\* signal receiver.
DbusScreencastCallFirst(method, handler, sess, useDefault) ==
  LET tok == NewRequestToken(request_token_counter)
      recv == listeners \cup {[path |-> tok, handler |-> handler]}
      options == SetHandleToken(IF useDefault THEN default_options ELSE 0, tok)
  IN /\ request_token_counter' = tok
     /\ issued' = Append(issued, tok)
     /\ calls' = Append(calls,
                   Call(method, tok, options, sess, \E l \in listeners : l.path = tok))
     /\ listeners' = recv
     /\ default_options' = IF useDefault THEN options ELSE default_options

\* _dbus_screencast: mint a token, add the signal receiver for its path, store
\* the token in the options mapping (the shared default mapping when the caller
\* passes none, a mapping of the caller's without handle_token otherwise), then
\* call the method with that mapping; the receiver set at the time of the call
\* decides the call's listening flag.
DbusScreencast(method, handler, sess, useDefault) ==
  LET tok == NewRequestToken(request_token_counter)
      recv == listeners \cup {[path |-> tok, handler |-> handler]}
      options == SetHandleToken(IF useDefault THEN default_options ELSE 0, tok)
  IN /\ request_token_counter' = tok
     /\ issued' = Append(issued, tok)
     /\ listeners' = recv
     /\ default_options' = IF useDefault THEN options ELSE default_options
     /\ calls' = Append(calls,
                   Call(method, tok, options, sess, \E l \in recv : l.path = tok))

dbusVars == <<request_token_counter, issued, listeners, default_options>>

\* The request tokens whose Response has not been emitted yet.
Pending == {issued[i] : i \in DOMAIN issued} \ {replies[j].token : j \in DOMAIN replies}

\* get_pipewire_fd: OpenPipeWireRemote(self._session, {}); the n-th call of the
\* process returns the n-th descriptor.
GetPipewireFd(cs, sess) ==
  Append(cs, Call("OpenPipeWireRemote", 0, 0, sess, FALSE))

FdCalls(cs) == {i \in DOMAIN cs : cs[i].method = "OpenPipeWireRemote"}

(***************************************************************************)
(* PipewireRecorder                                                        *)
(***************************************************************************)

\* _record on the state st = [pipelines, pipeline, calls]: request the fd,
\* construct the pipeline for node_id, make it self._pipeline, set it PLAYING
\* (plays and nulls count the set_state(PLAYING) and set_state(NULL) calls).
RecordOne(st, node_id, sess) ==
  LET cs == GetPipewireFd(st.calls, sess)
      p == [node |-> node_id, fd |-> Cardinality(FdCalls(cs)),
            state |-> "PLAYING", plays |-> 1, nulls |-> 0]
  IN [pipelines |-> Append(st.pipelines, p),
      pipeline |-> Len(st.pipelines) + 1,
      calls |-> cs]

\* Variant of the loop that records the first stream only.
RecordStreamsFirstOnly(st, streams, sess) ==
  IF streams = <<>> THEN st ELSE RecordOne(st, Head(streams), sess)

\* The for loop of get_streams_callback: _record for each stream, in order.
RECURSIVE RecordStreams(_, _, _)
RecordStreams(st, streams, sess) ==
  IF streams = <<>> THEN st
  ELSE RecordStreams(RecordOne(st, Head(streams), sess), Tail(streams), sess)

\* Variant of delayed_terminate that creates the Timer and never starts it.
DelayedTerminateNotStarted(dt, tpc, n) ==
  IF dt = "None" THEN <<"Timer", tpc, n>> ELSE <<dt, tpc, n>>

\* Variant of delayed_terminate without the "is None" test: a new Timer is
\* created and started on every call.
DelayedTerminateAlways(dt, tpc, n) == <<"Timer", "waiting", n + 1>>

\* delayed_terminate: create and start the Timer unless one was created before.
\* Gives the new <<_delayed_terminate, timer thread position, timers started>>.
DelayedTerminate(dt, tpc, n) ==
  IF dt = "None" THEN <<"Timer", "waiting", n + 1>> ELSE <<dt, tpc, n>>

\* terminate, first statement: self._pipeline.set_state(NULL) when it is not None.
TerminateRelease(ps, cur) ==
  IF cur # 0 THEN [ps EXCEPT ![cur].state = "NULL", ![cur].nulls = @ + 1] ELSE ps

\* Variant of the last statement of terminate that leaves the timer running.
TerminateNoCancel(dt, tpc) == tpc

\* terminate, last statement: Timer.cancel() when a timer exists.  A timer that
\* is still waiting never runs its function; one that has fired is unaffected.
TerminateCancel(dt, tpc) ==
  IF dt # "None" /\ tpc = "waiting" THEN "cancelled" ELSE tpc

\* Variant of get_streams_callback that returns on None without terminate.
GetStreamsCallbackNoTerminate(arg) ==
  /\ delivered' = Append(delivered, arg)
  /\ IF arg.none
     THEN UNCHANGED <<pc, termInvoked, pipelines, pipeline, calls>>
     ELSE LET st == RecordStreams([pipelines |-> pipelines, pipeline |-> pipeline,
                                   calls |-> calls], arg.streams, session)
          IN /\ pipelines' = st.pipelines
             /\ pipeline' = st.pipeline
             /\ calls' = st.calls
             /\ UNCHANGED <<pc, termInvoked>>

\* get_streams_callback(streams).  arg.none stands for streams is None.
\* With None it calls terminate (continued statement by statement below);
\* otherwise it records every stream.
GetStreamsCallback(arg) ==
  /\ delivered' = Append(delivered, arg)
  /\ IF arg.none
     THEN /\ pc' = [pc EXCEPT !.main = "t_release"]
          /\ termInvoked' = termInvoked \cup {"main"}
          /\ UNCHANGED <<pipelines, pipeline, calls>>
     ELSE LET st == RecordStreams([pipelines |-> pipelines, pipeline |-> pipeline,
                                   calls |-> calls], arg.streams, session)
          IN /\ pipelines' = st.pipelines
             /\ pipeline' = st.pipeline
             /\ calls' = st.calls
             /\ UNCHANGED <<pc, termInvoked>>

NoStreams == [none |-> TRUE, streams |-> <<>>]
Streams(s) == [none |-> FALSE, streams |-> s]

\* The main loop dispatches a callback: it is running and no callback is active.
MainIdle == pc.main = "idle" /\ loopRunning

(***************************************************************************)
(* main()                                                                  *)
(***************************************************************************)

\* pwr.record(): get_streams stores the continuation and issues CreateSession
\* with its own options mapping.
Record ==
  /\ pc.main = "start"
  /\ callback' = "get_streams_callback"
  /\ DbusScreencast("CreateSession", "_select_sources", "None", FALSE)
  /\ pc' = [pc EXCEPT !.main = "recorded"]
  /\ UNCHANGED <<session, replies, delivered, pipelines, pipeline, eosEvents,
                 errorsPrinted, delayed_timer, timersStarted, loopRunning,
                 quitCount, termInvoked>>

\* signal.signal(SIGINT, pwr.softexit); pwr.loop.run()
RunLoop ==
  /\ pc.main = "recorded"
  /\ pc' = [pc EXCEPT !.main = "idle"]
  /\ loopRunning' = TRUE
  /\ UNCHANGED <<negVars, pipelines, pipeline, eosEvents, errorsPrinted,
                 delayed_timer, timersStarted, quitCount, termInvoked>>

\* loop.run() returns once the loop has been quit and no callback is active;
\* main() returns.
LoopReturn ==
  /\ pc.main = "idle"
  /\ ~loopRunning
  /\ pc' = [pc EXCEPT !.main = "exited"]
  /\ UNCHANGED <<negVars, pipelines, pipeline, eosEvents, errorsPrinted,
                 delayed_timer, timersStarted, loopRunning, quitCount, termInvoked>>

(***************************************************************************)
(* Response handlers                                                       *)
(***************************************************************************)

\* Variant of the response test that takes only code 1 for a failure.
FailedOnlyOne(response) == response = 1

\* The test every handler starts with: if response != 0.
Failed(response) == response # 0

recFrame == <<eosEvents, errorsPrinted, delayed_timer, timersStarted,
              loopRunning, quitCount>>

\* Variant of _select_sources that goes on to Start, skipping SelectSources.
SelectSourcesSkip(response, handle) ==
  IF Failed(response)
  THEN /\ GetStreamsCallback(NoStreams)
       /\ UNCHANGED <<dbusVars, session>>
  ELSE /\ session' = handle
       /\ DbusScreencast("Start", "_process_streams", handle, TRUE)
       /\ UNCHANGED <<delivered, pipelines, pipeline, pc, termInvoked>>

\* Variant of _select_sources that calls SelectSources with self._session as
\* it was before the handle is stored.
SelectSourcesStaleSession(response, handle) ==
  IF Failed(response)
  THEN /\ GetStreamsCallback(NoStreams)
       /\ UNCHANGED <<dbusVars, session>>
  ELSE /\ session' = handle
       /\ DbusScreencast("SelectSources", "_start_portal", session, FALSE)
       /\ UNCHANGED <<delivered, pipelines, pipeline, pc, termInvoked>>

\* _select_sources(response, results): the CreateSession reply.
SelectSources(response, handle) ==
  IF Failed(response)
  THEN /\ GetStreamsCallback(NoStreams)
       /\ UNCHANGED <<dbusVars, session>>
  ELSE /\ session' = handle
       /\ DbusScreencast("SelectSources", "_start_portal", handle, FALSE)
       /\ UNCHANGED <<delivered, pipelines, pipeline, pc, termInvoked>>

\* Variant of _start_portal that returns on failure without the continuation.
StartPortalSilent(response) ==
  IF Failed(response)
  THEN UNCHANGED <<dbusVars, session, calls, delivered, pipelines, pipeline, pc,
                   termInvoked>>
  ELSE /\ DbusScreencast("Start", "_process_streams", session, TRUE)
       /\ UNCHANGED <<session, delivered, pipelines, pipeline, pc, termInvoked>>

\* _start_portal(response, results): the SelectSources reply.  Start is called
\* with the shared default options mapping.
StartPortal(response) ==
  IF Failed(response)
  THEN /\ GetStreamsCallback(NoStreams)
       /\ UNCHANGED <<dbusVars, session>>
  ELSE /\ DbusScreencast("Start", "_process_streams", session, TRUE)
       /\ UNCHANGED <<session, delivered, pipelines, pipeline, pc, termInvoked>>

\* _process_streams(response, results): the Start reply.
ProcessStreams(response, streams) ==
  /\ IF Failed(response)
     THEN GetStreamsCallback(NoStreams)
     ELSE GetStreamsCallback(Streams(streams))
  /\ UNCHANGED <<dbusVars, session>>

\* The part of a Response's results mapping its handler reads: session_handle
\* in a successful CreateSession reply, streams in a successful Start reply.
Results(handler, response, handle, streams) ==
  [session_handle |-> IF handler = "_select_sources" /\ response = 0
                      THEN handle ELSE "None",
   streams |-> IF handler = "_process_streams" /\ response = 0
               THEN streams ELSE <<>>]

\* The broker emits Response on a pending request path; the receiver registered
\* for that path runs on the main loop.  A request object emits one Response.
\* ncalls records how many calls had been issued when the Response arrived.
Reply(tok, response, handle, streams) ==
  /\ MainIdle
  /\ tok \in Pending
  /\ UNCHANGED <<callback, recFrame>>
  /\ \E l \in listeners :
       /\ l.path = tok
       /\ replies' = Append(replies, [token |-> tok, handler |-> l.handler,
                                      response |-> response,
                                      results |-> Results(l.handler, response,
                                                          handle, streams),
                                      ncalls |-> Len(calls)])
       /\ CASE l.handler = "_select_sources" -> SelectSources(response, handle)
            [] l.handler = "_start_portal" -> StartPortal(response)
            [] l.handler = "_process_streams" -> ProcessStreams(response, streams)

(***************************************************************************)
(* Pipeline bus messages, SIGINT, the drain timer, terminate               *)
(***************************************************************************)

ErrorDomains == {"resource", "stream", "core", "library"}

\* Variant of the error test that also matches stream errors.
IsResourceOrStreamError(domain) == domain \in {"resource", "stream"}

\* err.matches(Gst.ResourceError.quark(), ...): the error is of the resource class.
IsResourceError(domain) == domain = "resource"

\* Variant of the resource-error branch that sends EOS to the pipeline.
ErrorEosToPipeline == "pipeline"

\* The element the resource-error branch sends EOS to: get_by_name("sink").
ErrorEosTarget == "sink"

\* What softexit sends EOS to: self._pipeline.send_event, the pipeline itself.
SoftexitEosTarget == "pipeline"

\* _gst_message_callback(bus, message) for a message of pipeline p's bus.
GstMessageCallback(p, mtype, domain) ==
  /\ MainIdle
  /\ p \in DOMAIN pipelines
  /\ pipelines[p].state = "PLAYING"
  /\ CASE mtype = "EOS" ->
            /\ pc' = [pc EXCEPT !.main = "t_release"]
            /\ termInvoked' = termInvoked \cup {"main"}
            /\ UNCHANGED <<eosEvents, errorsPrinted, delayed_timer, timersStarted>>
       [] mtype = "ERROR" /\ IsResourceError(domain) ->
            LET dt == DelayedTerminate(delayed_timer, pc.timer, timersStarted)
            IN /\ delayed_timer' = dt[1]
               /\ pc' = [pc EXCEPT !.timer = dt[2]]
               /\ timersStarted' = dt[3]
               /\ eosEvents' = eosEvents \cup
                    {[pipe |-> pipeline, target |-> ErrorEosTarget, trigger |-> "error"]}
               /\ UNCHANGED <<errorsPrinted, termInvoked>>
       [] mtype = "ERROR" /\ ~IsResourceError(domain) ->
            /\ errorsPrinted' = errorsPrinted \cup {p}
            /\ UNCHANGED <<eosEvents, delayed_timer, timersStarted, pc, termInvoked>>
  /\ UNCHANGED <<negVars, pipelines, pipeline, loopRunning, quitCount>>

\* The messages a playing pipeline posts on its bus.
BusEos(p) ==
  /\ p \in DOMAIN pipelines
  /\ GstMessageCallback(p, "EOS", "none")

BusResourceError(p) ==
  /\ p \in DOMAIN pipelines
  /\ GstMessageCallback(p, "ERROR", "resource")

BusOtherError(p, domain) ==
  /\ p \in DOMAIN pipelines
  /\ domain # "resource"
  /\ GstMessageCallback(p, "ERROR", domain)

\* Variant of softexit that kills the pipeline at once: set_state(NULL), quit.
SoftexitAbrupt ==
  /\ MainIdle
  /\ pipelines' = TerminateRelease(pipelines, pipeline)
  /\ loopRunning' = FALSE
  /\ quitCount' = quitCount + 1
  /\ UNCHANGED <<negVars, pipeline, eosEvents, errorsPrinted, delayed_timer,
                 timersStarted, termInvoked, pc>>

\* Variant of softexit that arms the drain timer whether a pipeline exists or
\* not, and never quits the loop itself.
SoftexitAlwaysDrain ==
  /\ MainIdle
  /\ LET dt == DelayedTerminate(delayed_timer, pc.timer, timersStarted)
     IN /\ eosEvents' = IF pipeline # 0
                        THEN eosEvents \cup {[pipe |-> pipeline,
                                              target |-> "pipeline",
                                              trigger |-> "sigint"]}
                        ELSE eosEvents
        /\ delayed_timer' = dt[1]
        /\ pc' = [pc EXCEPT !.timer = dt[2]]
        /\ timersStarted' = dt[3]
  /\ UNCHANGED <<negVars, pipelines, pipeline, errorsPrinted, termInvoked,
                 loopRunning, quitCount>>

\* softexit: the SIGINT handler, run on the main loop.
Softexit ==
  /\ MainIdle
  /\ IF pipeline # 0
     THEN LET dt == DelayedTerminate(delayed_timer, pc.timer, timersStarted)
          IN /\ eosEvents' = eosEvents \cup
                  {[pipe |-> pipeline, target |-> SoftexitEosTarget,
                    trigger |-> "sigint"]}
             /\ delayed_timer' = dt[1]
             /\ pc' = [pc EXCEPT !.timer = dt[2]]
             /\ timersStarted' = dt[3]
             /\ UNCHANGED <<loopRunning, quitCount>>
     ELSE /\ loopRunning' = FALSE
          /\ quitCount' = quitCount + 1
          /\ UNCHANGED <<eosEvents, delayed_timer, pc, timersStarted>>
  /\ UNCHANGED <<negVars, pipelines, pipeline, errorsPrinted, termInvoked>>

\* The Timer's interval elapses before cancel(): its thread calls terminate.
TimerFire ==
  /\ pc.timer = "waiting"
  /\ pc' = [pc EXCEPT !.timer = "t_release"]
  /\ termInvoked' = termInvoked \cup {"timer"}
  /\ UNCHANGED <<negVars, pipelines, pipeline, eosEvents, errorsPrinted,
                 delayed_timer, timersStarted, loopRunning, quitCount>>

\* terminate, run by thread th: if self._pipeline is not None: set_state(NULL)
TermRelease(th) ==
  /\ pc[th] = "t_release"
  /\ pipelines' = TerminateRelease(pipelines, pipeline)
  /\ pc' = [pc EXCEPT ![th] = "t_quit"]
  /\ UNCHANGED <<negVars, pipeline, eosEvents, errorsPrinted, delayed_timer,
                 timersStarted, loopRunning, quitCount, termInvoked>>

\* terminate: self.loop.quit()
TermQuit(th) ==
  /\ pc[th] = "t_quit"
  /\ loopRunning' = FALSE
  /\ quitCount' = quitCount + 1
  /\ pc' = [pc EXCEPT ![th] = "t_cancel"]
  /\ UNCHANGED <<negVars, pipelines, pipeline, eosEvents, errorsPrinted,
                 delayed_timer, timersStarted, termInvoked>>

\* terminate: if self._delayed_terminate is not None: cancel(); then return
\* (the main thread to the loop, the timer thread to its end).
TermCancel(th) ==
  /\ pc[th] = "t_cancel"
  /\ pc' = IF th = "main"
           THEN [pc EXCEPT !.timer = TerminateCancel(delayed_timer, pc.timer),
                           !.main = "idle"]
           ELSE [pc EXCEPT !.timer = "done"]
  /\ UNCHANGED <<negVars, pipelines, pipeline, eosEvents, errorsPrinted,
                 delayed_timer, timersStarted, loopRunning, quitCount, termInvoked>>

Next ==
  \/ Record
  \/ RunLoop
  \/ LoopReturn
  \/ \E tok \in Pending, r \in Responses, h \in SessionHandles, s \in StreamLists :
       Reply(tok, r, h, s)
  \/ \E p \in DOMAIN pipelines : BusEos(p)
  \/ \E p \in DOMAIN pipelines : BusResourceError(p)
  \/ \E p \in DOMAIN pipelines, d \in ErrorDomains : BusOtherError(p, d)
  \/ Softexit
  \/ TimerFire
  \/ \E th \in Threads : TermRelease(th)
  \/ \E th \in Threads : TermQuit(th)
  \/ \E th \in Threads : TermCancel(th)

Spec == Init /\ [][Next]_vars

\* The timer thread and an active terminate always make progress; the main
\* loop returns once quit.  Nothing is assumed about the broker, the pipeline
\* bus or the user.
FairSpec ==
  /\ Spec
  /\ WF_vars(TimerFire)
  /\ WF_vars(\E th \in Threads : TermRelease(th))
  /\ WF_vars(\E th \in Threads : TermQuit(th))
  /\ WF_vars(\E th \in Threads : TermCancel(th))
  /\ WF_vars(LoopReturn)

TypeOK ==
  /\ request_token_counter = Len(issued)
  /\ session \in SessionHandles \cup {"None"}
  /\ pipeline \in 0..Len(pipelines)
  /\ Len(pipelines) <= MaxStreams
  /\ delayed_timer \in {"None", "Timer"}
  /\ quitCount \in 0..2
  /\ termInvoked \subseteq Threads
  /\ pc.main \in {"start", "recorded", "idle", "t_release", "t_quit", "t_cancel", "exited"}
  /\ pc.timer \in {"unborn", "waiting", "t_release", "t_quit", "t_cancel", "done", "cancelled"}

(***************************************************************************)
(* Properties                                                              *)
(***************************************************************************)

\* A reply carried a non-zero response code.
NegotiationFailed == \E i \in DOMAIN replies : replies[i].response # 0

\* The controller's pipeline has been released and the run loop quit.
Stopped ==
  /\ pipeline # 0
  /\ pipelines[pipeline].state = "NULL"
  /\ ~loopRunning
  /\ quitCount >= 1

\* C1: if the reply to CreateSession, SelectSources or Start carries a non-zero
\* response code, the continuation has been invoked with the "no streams"
\* sentinel (and with nothing else), and no broker call is issued after that
\* reply: the calls issued are those that had been issued when it arrived.
C1_EarlyExit ==
  \A i \in DOMAIN replies :
    replies[i].response # 0 =>
      /\ delivered = <<NoStreams>>
      /\ Len(calls) = replies[i].ncalls
      /\ \A k \in DOMAIN calls : calls[k].method # "OpenPipeWireRemote"

\* C1 witness: SelectSources was refused and the process has run to its end.
C1_Witness ==
  /\ pc.main = "exited"
  /\ \E i \in DOMAIN replies :
       replies[i].handler = "_start_portal" /\ replies[i].response # 0

\* C2 (the claim as stated): once terminate has been invoked by both the bus
\* handler on the main thread and the timer thread and both invocations have
\* finished, every pipeline has been set to NULL exactly once and loop.quit()
\* has been called exactly once.
C2_ReleasedAndQuitOnce ==
  (termInvoked = Threads /\ pc.timer = "done" /\ pc.main \in {"idle", "exited"}) =>
    /\ \A p \in DOMAIN pipelines : pipelines[p].nulls = 1
    /\ quitCount = 1

\* C5: the request tokens minted are strictly increasing in the order they are
\* issued, hence no token is issued twice.
C5_TokensIncrease ==
  \A i, j \in DOMAIN issued : i < j => issued[i] < issued[j]

\* C5 witness: all three token-correlated steps have minted their token.
C5_Witness == Len(issued) = 3

\* Pipeline p is draining: an EOS event has been injected into it and it has
\* not been released.
Draining(p) ==
  /\ p \in DOMAIN pipelines
  /\ pipelines[p].state = "PLAYING"
  /\ \E e \in eosEvents : e.pipe = p

\* Pipeline p has been released: set to NULL.
Released(p) ==
  /\ p \in DOMAIN pipelines
  /\ pipelines[p].state = "NULL"

\* C3: a pipeline that is draining is eventually released with the run loop
\* quit, whatever the pipeline bus does, provided the timer thread and an
\* active terminate make progress (FairSpec).
C3_DrainingLeadsToStopped ==
  \A p \in 1..MaxStreams :
    Draining(p) ~> (Released(p) /\ ~loopRunning /\ quitCount >= 1)

\* C3 witness: a draining pipeline was stopped by the timer alone; no
\* end-of-stream message was ever handled.
C3_Witness ==
  /\ Stopped
  /\ eosEvents # {}
  /\ termInvoked = {"timer"}
  /\ pc.timer = "done"

HandshakeOrder == <<"CreateSession", "SelectSources", "Start">>

\* The call that call k waits for: the step before it, Start for every
\* OpenPipeWireRemote.
Previous(k) == IF k <= Len(HandshakeOrder) THEN k - 1 ELSE Len(HandshakeOrder)

\* The calls are CreateSession, SelectSources, Start, then OpenPipeWireRemote,
\* none skipped, and each call after the first is issued after the Response to
\* the previous step arrived with response code 0.
InHandshakeOrder ==
  /\ \A k \in DOMAIN calls :
       calls[k].method = IF k <= Len(HandshakeOrder) THEN HandshakeOrder[k]
                         ELSE "OpenPipeWireRemote"
  /\ \A k \in DOMAIN calls :
       k > 1 => \E j \in DOMAIN replies :
                  /\ replies[j].token = calls[Previous(k)].path
                  /\ replies[j].response = 0
                  /\ replies[j].ncalls < k

\* C4 (the claim as stated): the calls are in handshake order, each after the
\* previous step's reply 0, none skipped, and no call is issued twice.
C4_OrderedNoneTwice ==
  /\ InHandshakeOrder
  /\ \A i, k \in DOMAIN calls : i # k => calls[i].method # calls[k].method

\* C4 (amended): the calls are in handshake order, each after the previous
\* step's reply 0, none skipped; CreateSession, SelectSources and Start are
\* issued at most once, and OpenPipeWireRemote once per stream descriptor of
\* the Start reply.
C4_Ordered ==
  /\ InHandshakeOrder
  /\ \A i, k \in DOMAIN calls :
       (i # k /\ calls[i].method = calls[k].method) =>
          calls[i].method = "OpenPipeWireRemote"
  /\ \A d \in DOMAIN delivered :
       ~delivered[d].none => Cardinality(FdCalls(calls)) = Len(delivered[d].streams)
  /\ (\A d \in DOMAIN delivered : delivered[d].none) => FdCalls(calls) = {}

\* C4 witness: the whole handshake ran for two stream descriptors.
C4_Witness ==
  /\ Len(calls) = Len(HandshakeOrder) + 2
  /\ calls[Len(calls)].method = "OpenPipeWireRemote"

\* C6: when the continuation has received N stream descriptors, exactly N
\* pipelines have been constructed, the i-th for the i-th descriptor's node id,
\* each set to PLAYING once; before that no pipeline exists.
C6_OnePipelinePerStream ==
  /\ (\A d \in DOMAIN delivered : delivered[d].none) => pipelines = <<>>
  /\ \A d \in DOMAIN delivered :
       ~delivered[d].none =>
         /\ Len(pipelines) = Len(delivered[d].streams)
         /\ \A i \in DOMAIN pipelines :
              /\ pipelines[i].node = delivered[d].streams[i]
              /\ pipelines[i].plays = 1

\* C6 witness: two descriptors with different node ids were recorded.
C6_Witness ==
  /\ Len(pipelines) = 2
  /\ pipelines[1].node # pipelines[2].node

C8_FailureExitsWithoutRecording ==
  NegotiationFailed =>
    /\ pipelines = <<>>
    /\ pipeline = 0
    /\ FdCalls(calls) = {}
    /\ delayed_timer = "None"
    /\ timersStarted = 0
    /\ pc.timer = "unborn"
    /\ pc.main \in {"t_release", "t_quit", "t_cancel", "idle", "exited"}
    /\ pc.main \in {"t_cancel", "idle", "exited"} => (~loopRunning /\ quitCount = 1)

\* C8 witness: Start was refused and main() has returned.
C8_Witness ==
  /\ pc.main = "exited"
  /\ \E i \in DOMAIN replies :
       replies[i].handler = "_process_streams" /\ replies[i].response # 0

\* C9: handling a pipeline error that is not of the resource class changes
\* nothing of the recording state: pipelines, injected events, timer, run loop
\* and both threads' positions are as before (only the error is printed).
C9_OtherErrorChangesNothing ==
  [][\A p \in 1..MaxStreams, d \in ErrorDomains :
       BusOtherError(p, d) =>
         UNCHANGED <<pipelines, pipeline, eosEvents, delayed_timer, timersStarted,
                     loopRunning, quitCount, termInvoked, pc>>]_vars

\* C9 witness: such an error was printed while the pipeline plays on, no timer
\* armed, the loop running.
C9_Witness ==
  /\ errorsPrinted # {}
  /\ pipeline # 0
  /\ pipelines[pipeline].state = "PLAYING"
  /\ pc.timer = "unborn"
  /\ eosEvents = {}
  /\ MainIdle

\* C10: a resource-class error injects EOS at the sink and leaves a timer
\* created (a first one is started); when terminate, run for the end-of-stream
\* message, reaches cancel() while the timer is still waiting, the timer is
\* cancelled with the pipeline released and the loop quit; a cancelled timer
\* has never run terminate and stays cancelled.
C10_EosBeforeTimeoutCancels ==
  /\ [][\A p \in 1..MaxStreams :
          BusResourceError(p) =>
            /\ [pipe |-> pipeline, target |-> "sink", trigger |-> "error"] \in eosEvents'
            /\ delayed_timer' = "Timer"
            /\ pc.timer = "unborn" => pc'.timer = "waiting"]_vars
  /\ [][(TermCancel("main") /\ pc.timer = "waiting") =>
          (pc'.timer = "cancelled" /\ Stopped')]_vars
  /\ [](pc.timer = "cancelled" => (Stopped /\ "timer" \notin termInvoked))
  /\ [][pc.timer = "cancelled" => pc'.timer = "cancelled"]_vars

\* C10 witness: after a resource-class error the end-of-stream message was
\* handled first and the timer is cancelled.
C10_Witness ==
  /\ pc.timer = "cancelled"
  /\ \E e \in eosEvents : e.trigger = "error"
  /\ termInvoked = {"main"}
  /\ pc.main = "exited"

\* C11: the interrupt handler, run while a pipeline exists, sends that
\* pipeline EOS and leaves a drain timer created without releasing anything or
\* quitting the loop; and a pipeline only ever becomes NULL in the release
\* statement of a terminate invoked for an end-of-stream message or by the
\* timer.
C11_InterruptDrainsNeverReleases ==
  /\ [][(Softexit /\ pipeline # 0) =>
          /\ pipelines' = pipelines
          /\ \E e \in eosEvents' : e.pipe = pipeline /\ e.trigger = "sigint"
          /\ delayed_timer' = "Timer"
          /\ pc'.timer # "unborn"
          /\ UNCHANGED <<loopRunning, quitCount, termInvoked>>]_vars
  /\ [][(\E p \in DOMAIN pipelines :
           pipelines[p].state # "NULL" /\ pipelines'[p].state = "NULL") =>
          (\E th \in termInvoked : pc[th] = "t_release" /\ pc'[th] = "t_quit")]_vars

\* C11 witness: after an interrupt the pipeline is still playing, draining,
\* with the timer waiting and terminate not yet invoked.
C11_Witness ==
  /\ pipeline # 0
  /\ Draining(pipeline)
  /\ \A e \in eosEvents : e.trigger = "sigint"
  /\ pc.timer = "waiting"
  /\ termInvoked = {}

\* C12 (the claim as stated): the main thread and the timer thread are never
\* both inside the release statements of terminate (set_state(NULL),
\* loop.quit()) at the same time.
C12_SingleWriter ==
  ~(pc.main \in {"t_release", "t_quit"} /\ pc.timer \in {"t_release", "t_quit"})

\* C13: every CreateSession, SelectSources and Start call was issued with the
\* Response receiver for its request path already registered, and that
\* receiver is still registered.
C13_ListenerBeforeCall ==
  \A k \in DOMAIN calls :
    calls[k].method # "OpenPipeWireRemote" =>
      /\ calls[k].listening
      /\ \E l \in listeners : l.path = calls[k].path

\* C13 witness: all three token-correlated calls have been issued.
C13_Witness ==
  /\ Len(calls) >= Len(HandshakeOrder)
  /\ calls[Len(HandshakeOrder)].method = "Start"
  /\ Cardinality(listeners) = Len(HandshakeOrder)

\* C14: every SelectSources, Start and OpenPipeWireRemote call carries a
\* session handle that is not None and is the session_handle of the successful
\* CreateSession reply; self._session, once set, never changes.
C14_SessionHandleCarried ==
  /\ [](\A k \in DOMAIN calls :
          calls[k].method # "CreateSession" =>
            /\ calls[k].session # "None"
            /\ \E j \in DOMAIN replies :
                 /\ replies[j].handler = "_select_sources"
                 /\ replies[j].response = 0
                 /\ replies[j].results.session_handle = calls[k].session)
  /\ [][session # "None" => session' = session]_vars

\* C14 witness: the whole handshake, file-descriptor request included, ran on
\* the second of the handles the broker may return.
C14_Witness ==
  /\ Len(calls) > Len(HandshakeOrder)
  /\ calls[Len(calls)].method = "OpenPipeWireRemote"
  /\ calls[Len(calls)].session = "/s/2"

\* C15: the handle_token each CreateSession, SelectSources and Start call
\* carries in its options is the token minted in that step, the one its
\* receiver's request path ends in; Start, which uses the shared default
\* mapping, included.
C15_HandleTokenIsStepToken ==
  \A k \in DOMAIN calls :
    calls[k].method # "OpenPipeWireRemote" =>
      /\ k \in DOMAIN issued
      /\ calls[k].handle_token = issued[k]
      /\ calls[k].handle_token = calls[k].path

\* C15 witness: Start has been called with the shared default mapping.
C15_Witness ==
  /\ default_options # 0
  /\ \E k \in DOMAIN calls :
       calls[k].method = "Start" /\ calls[k].handle_token = default_options

\* C16: at most one Timer is ever created and started, whatever the number of
\* interrupts and resource-class errors; the timer field is set exactly when
\* that one Timer has been started.
C16_TimerStartedOnce ==
  /\ timersStarted <= 1
  /\ delayed_timer = "Timer" <=> timersStarted = 1
  /\ pc.timer = "unborn" <=> timersStarted = 0

\* C16 witness: both drain triggers have occurred, the timer has fired and is
\* inside terminate, and one Timer was started.
C16_Witness ==
  /\ timersStarted = 1
  /\ pc.timer = "t_quit"
  /\ \E e \in eosEvents : e.trigger = "error"
  /\ \E e \in eosEvents : e.trigger = "sigint"

\* Some thread's terminate has passed loop.quit().
QuitThroughTerminate ==
  \/ pc.timer \in {"t_cancel", "done"}
  \/ "main" \in termInvoked /\ pc.main \in {"t_cancel", "idle", "exited"}

\* C17 (the claim as stated): once terminate has quit the run loop with at
\* least one pipeline constructed, every constructed pipeline is NULL.
C17_AllReleasedOnQuit ==
  (QuitThroughTerminate /\ pipelines # <<>>) =>
    \A p \in DOMAIN pipelines : pipelines[p].state = "NULL"

Resolved ==
  \E i \in DOMAIN replies :
    replies[i].response # 0 \/ replies[i].handler = "_process_streams"

\* C19: the continuation is invoked at most once, and exactly once when the
\* handshake has resolved: with the streams of the Start reply when all three
\* replies are zero, with the sentinel otherwise.
C19_ContinuationOnce ==
  /\ Len(delivered) <= 1
  /\ Resolved <=> Len(delivered) = 1
  /\ Len(delivered) = 1 =>
       IF \A i \in DOMAIN replies : replies[i].response = 0
       THEN delivered[1] = Streams(replies[Len(replies)].results.streams)
       ELSE delivered[1] = NoStreams

\* C19 witness: all three replies were zero and two descriptors were handed
\* to the continuation.
C19_Witness ==
  /\ Len(replies) = Len(HandshakeOrder)
  /\ Len(delivered) = 1
  /\ ~delivered[1].none
  /\ Len(delivered[1].streams) = 2

====
